---------------------------- MODULE Spec2Model ----------------------------
(***************************************************************************)
(* Model of valor's plugin registry (src/src/registry.rs): the two         *)
(* Mutex-guarded structures `routes` and `plugins`, the operations         *)
(* match_plugin_handler / register / plugin_list, and the control handler  *)
(* returned by as_handler.  Every lock acquisition, every read or write    *)
(* made under a lock and every `.await` is a separate step of the calling  *)
(* task, so that tasks interleave exactly where the code lets them.        *)
(***************************************************************************)
EXTENDS Naturals, Integers, Sequences, FiniteSets, Bags, TLC

(***************************************************************************)
(* Bounds of the model.                                                    *)
(***************************************************************************)
\* Number of handlers the Loader may hand out in one run, hence the number
\* of register calls.
MaxRegs == 2

\* The concurrent tasks serving requests.
Procs == {"t1", "t2"}

(***************************************************************************)
(* Values.  A string that the code inspects character by character (a URL  *)
(* path, a prefix) is a sequence of one-character strings.                 *)
(***************************************************************************)
PathA   == <<"/", "a">>
PathB   == <<"/", "b">>
PathAB  == <<"/", "a", "b">>
PathA_B == <<"/", "a", "/", "b">>

Names == {"a", "b"}

\* Option<T>: None is the empty set, Some(x) the singleton {x}.
None == {}
Some(x) == {x}

\* A Plugin value (the descriptor): <<name, prefix>>.
MkPlugin(n, pre) == <<n, pre>>
PluginName(plugin) == plugin[1]
PluginPrefix(plugin) == plugin[2]

\* The descriptors that requests of the model carry.
Plugins == { MkPlugin("a", PathA), MkPlugin("b", PathB),
             MkPlugin("a", PathA_B), MkPlugin("b", PathA) }

\* The paths that lookups of the model ask for.
Paths == { PathA, PathB, PathAB, PathA_B }

\* HashMap / PathTree contents: a function on the set of present keys.
EmptyMap == [k \in {} |-> k]
MapInsert(m, k, v) == [x \in (DOMAIN m) \cup {k} |-> IF x = k THEN v ELSE m[x]]

(***************************************************************************)
(* Routing table (PathTree<String>).                                       *)
(***************************************************************************)
\* A path cut at every "/": "/a/b" is << "", "a", "b" >>.
RECURSIVE Split(_)
Split(s) ==
    IF s = <<>> THEN << <<>> >>
    ELSE LET rest == Split(Tail(s)) IN
         IF Head(s) = "/" THEN << <<>> >> \o rest
         ELSE << <<Head(s)>> \o Head(rest) >> \o Tail(rest)

IsSeqPrefix(a, b) == Len(a) <= Len(b) /\ SubSeq(b, 1, Len(a)) = a

\* The stored prefixes that are ancestors of path, segment by segment.
Ancestors(r, path) == { pre \in DOMAIN r : IsSeqPrefix(Split(pre), Split(path)) }

\* Variant: an ancestor is any stored prefix the path's text starts with.
RoutesFind_RawPrefix(r, path) ==
    LET c == { pre \in DOMAIN r : IsSeqPrefix(pre, path) } IN
    IF c = {} THEN None
    ELSE Some(r[CHOOSE pre \in c : \A o \in c : Len(o) <= Len(pre)])

\* routes.find(path): the value stored under the longest stored ancestor.
RoutesFind(r, path) ==
    LET c == Ancestors(r, path) IN
    IF c = {} THEN None
    ELSE Some(r[CHOOSE pre \in c : \A o \in c : Len(Split(o)) <= Len(Split(pre))])

\* routes.insert(prefix, name): overwrites an identical prefix.
RoutesInsert(r, pre, n) == MapInsert(r, pre, n)

(***************************************************************************)
(* Plugin map (HashMap<String, (Plugin, Arc<dyn RequestHandler>)>).        *)
(***************************************************************************)
\* The Loader's product: a handler instance built for one descriptor.
MkHandler(i, plugin) == [id |-> i, plugin |-> plugin]

\* Arc<dyn RequestHandler>: a clone adds one to the instance's strong
\* count, a drop takes one off, and the instance is gone at 0.
ArcClone(a, hs) ==
    [i \in DOMAIN a |-> a[i] + Cardinality({ h \in hs : h.id = i })]
ArcDrop(a, hs) ==
    [i \in DOMAIN a |-> a[i] - Cardinality({ h \in hs : h.id = i })]

\* Variant: an existing entry is kept (entry().or_insert()).
PluginsInsert_KeepOld(m, n, pair) == IF n \in DOMAIN m THEN m ELSE MapInsert(m, n, pair)
PluginsInsert(m, n, pair) == MapInsert(m, n, pair)

\* plugins.get(name).
PluginsGet(m, n) == IF n \in DOMAIN m THEN Some(m[n]) ELSE None

\* plugins.values().map(|(p, _)| p.clone()).collect(): a Vec in the map's
\* iteration order, which is unspecified: the bag of its elements.
\* Variant: the list is built per route, one descriptor for each prefix.
PluginValues_PerPrefix(m) ==
    LET pres == { PluginPrefix(m[n][1]) : n \in DOMAIN m } IN
    SetToBag({ m[CHOOSE n \in DOMAIN m : PluginPrefix(m[n][1]) = pre][1] : pre \in pres })

PluginValues(m) ==
    LET ds == { m[n][1] : n \in DOMAIN m } IN
    [d \in ds |-> Cardinality({ n \in DOMAIN m : m[n][1] = d })]

(***************************************************************************)
(* Requests and responses of the control handler.                          *)
(***************************************************************************)
Methods == {"GET", "POST", "DELETE"}

\* A JSON object is a record of its fields; a body that is no JSON object
\* has none of the fields a descriptor needs.
JsonOf(plugin) == [name |-> PluginName(plugin), prefix |-> PluginPrefix(plugin)]
Garbage == [raw |-> "{"]
MissingPrefix == [name |-> "a"]
Bodies == { JsonOf(d) : d \in Plugins } \cup { Garbage, MissingPrefix }
NoBody == [raw |-> ""]

\* req.body_json::<Plugin>(): Some(plugin), or None for a parse error.
BodyJson(body) ==
    IF {"name", "prefix"} \subseteq DOMAIN body
    THEN Some(MkPlugin(body.name, body.prefix))
    ELSE None

\* json::to_vec(&plugins): the array of the descriptors' JSON objects.
ToJsonArray(bag) ==
    LET objs == { JsonOf(d) : d \in DOMAIN bag } IN
    [o \in objs |-> LET d == CHOOSE x \in DOMAIN bag : JsonOf(x) = o IN bag[d]]

\* res!(...)
Res(status, body, ctype) == [status |-> status, body |-> body, content_type |-> ctype]
NoText == ""
NoType == "-"

VARIABLES
    routes,         \* PluginRegistry.routes: prefix -> name
    plugins,        \* PluginRegistry.plugins: name -> <<Plugin, handler>>
    routesLock,     \* holder of the routes Mutex, or None
    pluginsLock,    \* holder of the plugins Mutex, or None
    nextHandler,    \* the next handler instance the Loader creates
    arcs,           \* each handler instance's strong count (0: dropped)
    registered,     \* history: the arguments of the completed register calls
    pc,             \* each task's position
    req,            \* each task's request: method, body, whether the body was read
    path,           \* the path a task is matching
    plugin,         \* the descriptor a task parsed from its request
    handler,        \* the handler a task got from the Loader
    loaderCalled,   \* whether the task's request invoked the Loader
    found,          \* the name a lookup found in the routing table
    result,         \* the value match_plugin_handler returned to the task
    listed,         \* the Vec plugin_list returned to the task
    resp,           \* the response the control handler produced
    apc,            \* each connection task's position in accept's closure
    areq,           \* the request as it arrived on the connection
    header,         \* the request's x-request-id header, or None
    handed,         \* the request passed to runtime.on_msg, or None
    ares,           \* the response on_msg returned, or None
    logged,         \* the access log entries written for the request
    issued,         \* how many identifiers Uuid::new_v4 has produced
    arrivals        \* how many requests have arrived

vars == << routes, plugins, routesLock, pluginsLock, nextHandler, arcs, registered,
           pc, req, path, plugin, handler, loaderCalled, found, result, listed,
           resp, apc, areq, header, handed, ares, logged, issued, arrivals >>

registry == << routes, plugins, registered >>
locks == << routesLock, pluginsLock >>
accept == << apc, areq, header, handed, ares, logged, issued, arrivals >>
locals == << req, path, plugin, handler, loaderCalled, found, result, listed,
            resp >>

NoReq == [method |-> "-", body |-> NoBody, bodyRead |-> FALSE]
NoArrival == [method |-> "-", path |-> <<>>, id |-> None]

\* PluginRegistry::new
Init ==
    /\ routes = EmptyMap
    /\ plugins = EmptyMap
    /\ routesLock = None
    /\ pluginsLock = None
    /\ nextHandler = 1
    /\ arcs = EmptyMap
    /\ registered = <<>>
    /\ pc = [p \in Procs |-> "idle"]
    /\ req = [p \in Procs |-> NoReq]
    /\ path = [p \in Procs |-> <<>>]
    /\ plugin = [p \in Procs |-> None]
    /\ handler = [p \in Procs |-> None]
    /\ loaderCalled = [p \in Procs |-> FALSE]
    /\ found = [p \in Procs |-> None]
    /\ result = [p \in Procs |-> None]
    /\ listed = [p \in Procs |-> None]
    /\ resp = [p \in Procs |-> None]
    /\ apc = [p \in Procs |-> "wait"]
    /\ areq = [p \in Procs |-> NoArrival]
    /\ header = [p \in Procs |-> None]
    /\ handed = [p \in Procs |-> None]
    /\ ares = [p \in Procs |-> None]
    /\ logged = [p \in Procs |-> <<>>]
    /\ issued = 0
    /\ arrivals = 0

\* A task that finished one call starts the next with fresh locals.
Fresh(p, newpc, r, pth) ==
    /\ pc[p] \in {"idle", "done"}
    /\ pc' = [pc EXCEPT ![p] = newpc]
    /\ req' = [req EXCEPT ![p] = r]
    /\ path' = [path EXCEPT ![p] = pth]
    /\ plugin' = [plugin EXCEPT ![p] = None]
    /\ handler' = [handler EXCEPT ![p] = None]
    /\ loaderCalled' = [loaderCalled EXCEPT ![p] = FALSE]
    /\ found' = [found EXCEPT ![p] = None]
    /\ result' = [result EXCEPT ![p] = None]
    /\ listed' = [listed EXCEPT ![p] = None]
    /\ resp' = [resp EXCEPT ![p] = None]
    /\ arcs' = ArcDrop(ArcDrop(arcs, handler[p]), { pr[2] : pr \in result[p] })
    /\ UNCHANGED << accept, registry, locks, nextHandler >>

Goto(p, newpc) == pc' = [pc EXCEPT ![p] = newpc]

(***************************************************************************)
(* match_plugin_handler                                                    *)
(***************************************************************************)
\* A dispatch calls match_plugin_handler(path).
CallMatch(p) == \E pth \in Paths : Fresh(p, "m_routes", NoReq, pth)

\* let routes = self.routes.lock().unwrap();
MatchLockRoutes(p) ==
    /\ pc[p] = "m_routes"
    /\ routesLock = None
    /\ routesLock' = Some(p)
    /\ Goto(p, "m_plugins")
    /\ UNCHANGED << accept, registry, pluginsLock, nextHandler, arcs, locals >>

\* let plugins = self.plugins.lock().unwrap();
MatchLockPlugins(p) ==
    /\ pc[p] = "m_plugins"
    /\ pluginsLock = None
    /\ pluginsLock' = Some(p)
    /\ Goto(p, "m_find")
    /\ UNCHANGED << accept, registry, routesLock, nextHandler, arcs, locals >>

\* The guards a returning call drops.
Unlock(p) ==
    /\ routesLock' = IF routesLock = Some(p) THEN None ELSE routesLock
    /\ pluginsLock' = IF pluginsLock = Some(p) THEN None ELSE pluginsLock

\* Variant: the guards are dropped as soon as the route is read.
MatchFind_DropGuards(p) ==
    /\ pc[p] = "m_find"
    /\ LET f == RoutesFind(routes, path[p]) IN
       /\ found' = [found EXCEPT ![p] = f]
       /\ Goto(p, IF f = None THEN "done" ELSE "m_get")
    /\ Unlock(p)
    /\ result' = [result EXCEPT ![p] = None]
    /\ UNCHANGED << accept, registry, nextHandler, arcs, req, path, plugin, handler,
                    loaderCalled, listed, resp >>

\* let (name, _) = routes.find(path)?;
MatchFind(p) ==
    /\ pc[p] = "m_find"
    /\ LET f == RoutesFind(routes, path[p]) IN
       /\ found' = [found EXCEPT ![p] = f]
       /\ IF f = None
          THEN /\ Goto(p, "done")
               /\ Unlock(p)
          ELSE /\ Goto(p, "m_get")
               /\ UNCHANGED locks
    /\ result' = [result EXCEPT ![p] = None]
    /\ UNCHANGED << accept, registry, nextHandler, arcs, req, path, plugin, handler,
                    loaderCalled, listed, resp >>

\* Variant: the pair is handed out without a clone of the Arc.
MatchGet_NoClone(p) ==
    /\ pc[p] = "m_get"
    /\ \E n \in found[p] :
          result' = [result EXCEPT ![p] = PluginsGet(plugins, n)]
    /\ found' = [found EXCEPT ![p] = None]
    /\ Unlock(p)
    /\ Goto(p, "done")
    /\ UNCHANGED << accept, registry, nextHandler, arcs, req, path, plugin, handler,
                    loaderCalled, listed, resp >>

\* let (plugin, handler) = plugins.get(name)?;
\* Some((plugin.clone(), handler.clone()))
MatchGet(p) ==
    /\ pc[p] = "m_get"
    /\ \E n \in found[p] :
          LET got == PluginsGet(plugins, n) IN
          /\ result' = [result EXCEPT ![p] = got]
          /\ arcs' = ArcClone(arcs, { pr[2] : pr \in got })
    /\ found' = [found EXCEPT ![p] = None]
    /\ Unlock(p)
    /\ Goto(p, "done")
    /\ UNCHANGED << accept, registry, nextHandler, req, path, plugin, handler,
                    loaderCalled, listed, resp >>

(***************************************************************************)
(* register                                                                *)
(***************************************************************************)
\* let mut routes = self.routes.lock().unwrap();
RegisterLockRoutes(p) ==
    /\ pc[p] = "r_routes"
    /\ routesLock = None
    /\ routesLock' = Some(p)
    /\ Goto(p, "r_plugins")
    /\ UNCHANGED << accept, registry, pluginsLock, nextHandler, arcs, locals >>

\* Variant: the routes mutex is locked a second time in place of the
\* plugins mutex.
RegisterLockPlugins_RoutesAgain(p) ==
    /\ pc[p] = "r_plugins"
    /\ routesLock = None
    /\ routesLock' = Some(p)
    /\ Goto(p, "r_route")
    /\ UNCHANGED << accept, registry, pluginsLock, nextHandler, arcs, locals >>

\* let mut plugins = self.plugins.lock().unwrap();
RegisterLockPlugins(p) ==
    /\ pc[p] = "r_plugins"
    /\ pluginsLock = None
    /\ pluginsLock' = Some(p)
    /\ Goto(p, "r_route")
    /\ UNCHANGED << accept, registry, routesLock, nextHandler, arcs, locals >>

\* Variant: each structure is locked for its own insert only, so the
\* guards are gone between the two inserts.
RegisterInsertRoute_Unlock(p) ==
    /\ pc[p] = "r_route"
    /\ \E d \in plugin[p] :
          routes' = RoutesInsert(routes, PluginPrefix(d), PluginName(d))
    /\ Unlock(p)
    /\ Goto(p, "r_plugin")
    /\ UNCHANGED << accept, plugins, registered, nextHandler, arcs, locals >>

\* Variant: the routes the name had before are taken out first.
RegisterInsertRoute_DropStale(p) ==
    /\ pc[p] = "r_route"
    /\ \E d \in plugin[p] :
          LET kept == { pre \in DOMAIN routes : routes[pre] # PluginName(d) } IN
          routes' = RoutesInsert([pre \in kept |-> routes[pre]],
                                 PluginPrefix(d), PluginName(d))
    /\ Goto(p, "r_plugin")
    /\ UNCHANGED << accept, plugins, registered, locks, nextHandler, arcs, locals >>

\* Variant: a prefix that has a route keeps it (first registration wins).
RegisterInsertRoute_KeepFirst(p) ==
    /\ pc[p] = "r_route"
    /\ \E d \in plugin[p] :
          routes' = IF PluginPrefix(d) \in DOMAIN routes THEN routes
                    ELSE RoutesInsert(routes, PluginPrefix(d), PluginName(d))
    /\ Goto(p, "r_plugin")
    /\ UNCHANGED << accept, plugins, registered, locks, nextHandler, arcs, locals >>

\* routes.insert(&plugin.prefix(), plugin.name().into());
RegisterInsertRoute(p) ==
    /\ pc[p] = "r_route"
    /\ \E d \in plugin[p] :
          routes' = RoutesInsert(routes, PluginPrefix(d), PluginName(d))
    /\ Goto(p, "r_plugin")
    /\ UNCHANGED << accept, plugins, registered, locks, nextHandler, arcs, locals >>

\* plugins.insert(plugin.name().into(), (plugin, handler.into()));
\* plugin and handler are moved into the map, and the guards are dropped as
\* register returns.
RegisterInsertPlugin(p) ==
    /\ pc[p] = "r_plugin"
    /\ \E d \in plugin[p], h \in handler[p] :
          LET n == PluginName(d)
              new == PluginsInsert(plugins, n, <<d, h>>)
              had == { pr[2] : pr \in PluginsGet(plugins, n) }
          IN
          /\ plugins' = new
          /\ registered' = Append(registered, <<d, h>>)
          \* insert returns the entry it replaced, which is dropped
          /\ arcs' = ArcDrop(arcs, (had \cup {h}) \ { pr[2] : pr \in PluginsGet(new, n) })
    /\ plugin' = [plugin EXCEPT ![p] = None]
    /\ handler' = [handler EXCEPT ![p] = None]
    /\ Unlock(p)
    /\ Goto(p, "h_created")
    /\ UNCHANGED << accept, routes, nextHandler, req, path, loaderCalled, found, result,
                    listed, resp >>

(***************************************************************************)
(* as_handler: the control handler                                         *)
(***************************************************************************)
\* The handler is invoked with a request.
CallHandler(p) ==
    \E m \in Methods, b \in Bodies :
        /\ (m # "POST" => b = Garbage)
        /\ Fresh(p, "h_method", [method |-> m, body |-> b, bodyRead |-> FALSE], <<>>)

\* Variant: only GET is told apart; every other method takes the POST arm.
HandlerMethod_PostArm(p) ==
    /\ pc[p] = "h_method"
    /\ Goto(p, IF req[p].method = "GET" THEN "l_lock" ELSE "h_body")
    /\ UNCHANGED << accept, registry, locks, nextHandler, arcs, req, path, plugin, handler,
                    loaderCalled, found, result, listed, resp >>

\* match req.method() { ... _ => res!(StatusCode::MethodNotAllowed) }
HandlerMethod(p) ==
    /\ pc[p] = "h_method"
    /\ IF req[p].method = "GET" THEN
            /\ Goto(p, "l_lock")
            /\ UNCHANGED resp
       ELSE IF req[p].method = "POST" THEN
            /\ Goto(p, "h_body")
            /\ UNCHANGED resp
       ELSE /\ Goto(p, "done")
            /\ resp' = [resp EXCEPT ![p] = Some(Res(405, NoText, NoType))]
    /\ UNCHANGED << accept, registry, locks, nextHandler, arcs, req, path, plugin, handler,
                    loaderCalled, found, result, listed >>

\* Method::Get: registry.plugin_list() takes the plugins lock ...
ListLock(p) ==
    /\ pc[p] = "l_lock"
    /\ pluginsLock = None
    /\ pluginsLock' = Some(p)
    /\ Goto(p, "l_read")
    /\ UNCHANGED << accept, registry, routesLock, nextHandler, arcs, locals >>

\* Variant: the content type is left out of the response.
HandlerGet_NoContentType(p) ==
    /\ pc[p] = "l_read"
    /\ LET list == PluginValues(plugins) IN
       /\ listed' = [listed EXCEPT ![p] = Some(list)]
       /\ resp' = [resp EXCEPT ![p] = Some(Res(200, ToJsonArray(list), NoType))]
    /\ Unlock(p)
    /\ Goto(p, "done")
    /\ UNCHANGED << accept, registry, nextHandler, arcs, req, path, plugin, handler,
                    loaderCalled, found, result >>

\* ... collects the descriptors, drops the guard, and the handler answers
\* with their JSON.
HandlerGet(p) ==
    /\ pc[p] = "l_read"
    /\ LET list == PluginValues(plugins) IN
       /\ listed' = [listed EXCEPT ![p] = Some(list)]
       /\ resp' = [resp EXCEPT ![p] =
                      Some(Res(200, ToJsonArray(list), "application/json"))]
    /\ Unlock(p)
    /\ Goto(p, "done")
    /\ UNCHANGED << accept, registry, nextHandler, arcs, req, path, plugin, handler,
                    loaderCalled, found, result >>

\* Variant: a body that does not parse falls back to a default descriptor
\* (unwrap_or_default) and the load goes on.
HandlerBody_Default(p) ==
    /\ pc[p] = "h_body"
    /\ req' = [req EXCEPT ![p].bodyRead = TRUE]
    /\ LET parsed == BodyJson(req[p].body) IN
       plugin' = [plugin EXCEPT ![p] =
                     IF parsed # None THEN parsed ELSE Some(MkPlugin("a", PathA))]
    /\ Goto(p, "h_load")
    /\ UNCHANGED << accept, registry, locks, nextHandler, arcs, path, handler, loaderCalled,
                    found, result, listed, resp >>

\* Variant: the routes guard is taken as soon as the body parsed, before
\* the load.
HandlerBody_LockFirst(p) ==
    /\ pc[p] = "h_body"
    /\ req' = [req EXCEPT ![p].bodyRead = TRUE]
    /\ LET parsed == BodyJson(req[p].body) IN
       IF parsed # None
       THEN /\ routesLock = None
            /\ routesLock' = Some(p)
            /\ plugin' = [plugin EXCEPT ![p] = parsed]
            /\ Goto(p, "h_load")
            /\ UNCHANGED resp
       ELSE /\ resp' = [resp EXCEPT ![p] = Some(Res(400, "parse error", NoType))]
            /\ Goto(p, "done")
            /\ UNCHANGED << plugin, routesLock >>
    /\ UNCHANGED << accept, registry, pluginsLock, nextHandler, arcs, path, handler, loaderCalled,
                    found, result, listed >>

\* Method::Post => match req.body_json().await
HandlerBody(p) ==
    /\ pc[p] = "h_body"
    /\ req' = [req EXCEPT ![p].bodyRead = TRUE]
    /\ LET parsed == BodyJson(req[p].body) IN
       IF parsed # None
       THEN /\ plugin' = [plugin EXCEPT ![p] = parsed]
            /\ Goto(p, "h_load")
            /\ UNCHANGED resp
       ELSE /\ resp' = [resp EXCEPT ![p] = Some(Res(400, "parse error", NoType))]
            /\ Goto(p, "done")
            /\ UNCHANGED plugin
    /\ UNCHANGED << accept, registry, locks, nextHandler, arcs, path, handler, loaderCalled,
                    found, result, listed >>

\* Variant: the handler answers 201 as soon as the load succeeded and never
\* gets to register.
LoaderOk_AnswerFirst(p) ==
    /\ pc[p] = "h_load"
    /\ nextHandler <= MaxRegs
    /\ \E d \in plugin[p] :
          handler' = [handler EXCEPT ![p] = Some(MkHandler(nextHandler, d))]
    /\ nextHandler' = nextHandler + 1
    /\ arcs' = MapInsert(arcs, nextHandler, 1)
    /\ loaderCalled' = [loaderCalled EXCEPT ![p] = TRUE]
    /\ resp' = [resp EXCEPT ![p] = Some(Res(201, NoText, NoType))]
    /\ Goto(p, "done")
    /\ UNCHANGED << accept, registry, locks, req, path, plugin, found, result, listed >>

\* loader.load(&plugin).await => Ok(handler)
LoaderOk(p) ==
    /\ pc[p] = "h_load"
    /\ nextHandler <= MaxRegs
    /\ \E d \in plugin[p] :
          handler' = [handler EXCEPT ![p] = Some(MkHandler(nextHandler, d))]
    /\ nextHandler' = nextHandler + 1
    /\ arcs' = MapInsert(arcs, nextHandler, 1)
    /\ loaderCalled' = [loaderCalled EXCEPT ![p] = TRUE]
    /\ Goto(p, "r_routes")
    /\ UNCHANGED << accept, registry, locks, req, path, plugin, found, result, listed, resp >>

\* Variant: the route is claimed before the load, so a failed load leaves
\* it behind.
LoaderErr_RouteFirst(p) ==
    /\ pc[p] = "h_load"
    /\ loaderCalled' = [loaderCalled EXCEPT ![p] = TRUE]
    /\ \E d \in plugin[p] :
          routes' = RoutesInsert(routes, PluginPrefix(d), PluginName(d))
    /\ resp' = [resp EXCEPT ![p] = Some(Res(422, "Can't load plugin", NoType))]
    /\ Goto(p, "done")
    /\ UNCHANGED << accept, plugins, registered, locks, nextHandler, arcs, req, path, plugin,
                    handler, found, result, listed >>

\* loader.load(&plugin).await => Err(_)
LoaderErr(p) ==
    /\ pc[p] = "h_load"
    /\ loaderCalled' = [loaderCalled EXCEPT ![p] = TRUE]
    /\ resp' = [resp EXCEPT ![p] = Some(Res(422, "Can't load plugin", NoType))]
    /\ Goto(p, "done")
    /\ UNCHANGED << accept, registry, locks, nextHandler, arcs, req, path, plugin, handler,
                    found, result, listed >>

\* registry.register(plugin, handler) returned: res!(StatusCode::Created)
HandlerCreated(p) ==
    /\ pc[p] = "h_created"
    /\ resp' = [resp EXCEPT ![p] = Some(Res(201, NoText, NoType))]
    /\ Goto(p, "done")
    /\ UNCHANGED << accept, registry, locks, nextHandler, arcs, req, path, plugin, handler,
                    loaderCalled, found, result, listed >>

Next ==
    \E p \in Procs :
        \/ CallMatch(p)
        \/ MatchLockRoutes(p)
        \/ MatchLockPlugins(p)
        \/ MatchFind(p)
        \/ MatchGet(p)
        \/ CallHandler(p)
        \/ HandlerMethod(p)
        \/ ListLock(p)
        \/ HandlerGet(p)
        \/ HandlerBody(p)
        \/ LoaderOk(p)
        \/ LoaderErr(p)
        \/ RegisterLockRoutes(p)
        \/ RegisterLockPlugins(p)
        \/ RegisterInsertRoute(p)
        \/ RegisterInsertPlugin(p)
        \/ HandlerCreated(p)

Spec == Init /\ [][Next]_vars

\* Scheduling.  A task that can run is run (the executor polls every ready
\* task), and a task blocked in Mutex::lock gets the mutex if it is released
\* again and again (the waiter is woken on unlock).
Acquire(p) ==
    \/ MatchLockRoutes(p) \/ MatchLockPlugins(p)
    \/ RegisterLockRoutes(p) \/ RegisterLockPlugins(p)
    \/ ListLock(p)
Locked(p) ==
    \/ MatchFind(p) \/ MatchGet(p)
    \/ RegisterInsertRoute(p) \/ RegisterInsertPlugin(p)
    \/ HandlerGet(p)
Fairness == \A p \in Procs : WF_vars(Locked(p)) /\ SF_vars(Acquire(p))

\* The same tasks and steps, with the calls' arguments drawn from fewer
\* values (which guard a step waits for does not depend on them): two
\* plugins that share a prefix, a path that matches it and one that does
\* not.
LivePaths == { PathA, PathAB }
LiveBodies == { JsonOf(MkPlugin("a", PathA)), JsonOf(MkPlugin("b", PathA)), Garbage }
LiveCallMatch(p) == \E pth \in LivePaths : Fresh(p, "m_routes", NoReq, pth)
LiveCallHandler(p) ==
    \E m \in Methods, b \in LiveBodies :
        /\ (m # "POST" => b = Garbage)
        /\ Fresh(p, "h_method", [method |-> m, body |-> b, bodyRead |-> FALSE], <<>>)

LiveNext ==
    \E p \in Procs :
        \/ LiveCallMatch(p)
        \/ LiveCallHandler(p)
        \/ Acquire(p)
        \/ Locked(p)
        \/ HandlerMethod(p)
        \/ HandlerBody(p)
        \/ LoaderOk(p)
        \/ LoaderErr(p)
        \/ HandlerCreated(p)

FairSpec == Init /\ [][LiveNext]_vars /\ Fairness

(***************************************************************************)
(* The accept loop (valor_bin): what happens to one request between its    *)
(* arrival on a connection and the access log.  Header values and paths    *)
(* are sequences of characters.                                            *)
(***************************************************************************)
MaxRequests == 3

\* The i-th identifier of Uuid::new_v4().to_string(): a value no earlier
\* call produced and no client sends.
Uuid(i) == [j \in 1..i |-> "u"]

\* Values a client sends in x-request-id.
ClientIds == { <<"c">> }

\* Values a downstream component sets in x-correlation-id.
CorrelationIds == { <<"k">> }

\* "/_health"
Health == <<"/", "_", "h", "e", "a", "l", "t", "h">>

\* "/_health", "/_health/l", "/_healthz", "/a"
AcceptPaths == { Health, Health \o <<"/", "l">>, Health \o <<"z">>, <<"/", "a">> }

\* str::starts_with
StartsWith(s, pre) == Len(pre) <= Len(s) /\ SubSeq(s, 1, Len(pre)) = pre

\* The responses runtime.on_msg may return: a status, and the headers
\* x-correlation-id and x-valor-plugin, each present or not.
Responses ==
    [status : {200, 404},
     correlation : {None} \cup { Some(k) : k \in CorrelationIds },
     plugin : {None} \cup { Some(n) : n \in {"a"} }]

\* The line info! writes.
LogEntry(plugin_, status, method, path_, id) ==
    [plugin |-> plugin_, status |-> status, method |-> method, path |-> path_,
     id |-> id]

dispatch == << registry, locks, nextHandler, arcs, pc, locals >>

AGoto(c, newpc) == apc' = [apc EXCEPT ![c] = newpc]

\* async_h1::accept(stream.clone(), |mut req| ...): a request is parsed
Arrive(c) ==
    /\ apc[c] \in {"wait", "done"}
    /\ arrivals < MaxRequests
    /\ arrivals' = arrivals + 1
    /\ \E pth \in AcceptPaths, id \in {None} \cup { Some(i) : i \in ClientIds } :
          /\ areq' = [areq EXCEPT ![c] = [method |-> "GET", path |-> pth, id |-> id]]
          /\ header' = [header EXCEPT ![c] = id]
    /\ handed' = [handed EXCEPT ![c] = None]
    /\ ares' = [ares EXCEPT ![c] = None]
    /\ logged' = [logged EXCEPT ![c] = <<>>]
    /\ AGoto(c, "id")
    /\ UNCHANGED << dispatch, issued >>

\* Variant: the identifier is attached whether or not the header is there.
AssignId_Always(c) ==
    /\ apc[c] = "id"
    /\ issued' = issued + 1
    /\ header' = [header EXCEPT ![c] = Some(Uuid(issued + 1))]
    /\ AGoto(c, "on_msg")
    /\ UNCHANGED << dispatch, areq, handed, ares, logged, arrivals >>

\* if req.header(REQ_ID_HEADER).is_none() {
\*     let id = Uuid::new_v4().to_string();
\*     req.insert_header(REQ_ID_HEADER, id);
\* }
AssignId(c) ==
    /\ apc[c] = "id"
    /\ IF header[c] = None
       THEN /\ issued' = issued + 1
            /\ header' = [header EXCEPT ![c] = Some(Uuid(issued + 1))]
       ELSE UNCHANGED << issued, header >>
    /\ AGoto(c, "on_msg")
    /\ UNCHANGED << dispatch, areq, handed, ares, logged, arrivals >>

\* let method = req.method(); let path = req.url().path().to_string();
\* runtime.on_msg(req.into())
OnMsg(c) ==
    /\ apc[c] = "on_msg"
    /\ handed' = [handed EXCEPT ![c] =
                    Some([method |-> areq[c].method, path |-> areq[c].path,
                          id |-> header[c]])]
    /\ AGoto(c, "await")
    /\ UNCHANGED << dispatch, areq, header, ares, logged, issued, arrivals >>

\* let res: http::Response = runtime.on_msg(req.into()).await?.into();  Ok
OnMsgOk(c) ==
    /\ apc[c] = "await"
    /\ \E r \in Responses : ares' = [ares EXCEPT ![c] = Some(r)]
    /\ AGoto(c, "log")
    /\ UNCHANGED << dispatch, areq, header, handed, logged, issued, arrivals >>

\* runtime.on_msg(req.into()).await?  Err: the closure returns the error,
\* accept returns it and the connection's task ends.
OnMsgErr(c) ==
    /\ apc[c] = "await"
    /\ AGoto(c, "closed")
    /\ UNCHANGED << dispatch, areq, header, handed, ares, logged, issued, arrivals >>

\* let id = res.header("x-correlation-id").map(|h| h.as_str()).unwrap_or("-");
\* let plugin = res.header("x-valor-plugin").map(|h| h.as_str()).unwrap_or("unkown");
\* let status: u16 = res.status().into();
\* if !path.starts_with("/_health") { info!(...) }
\* Ok(res)
Log(c) ==
    /\ apc[c] = "log"
    /\ \E res \in ares[c] :
          LET id == IF res.correlation = None THEN <<"-">>
                    ELSE CHOOSE k \in res.correlation : TRUE
              plugin_ == IF res.plugin = None THEN "unkown"
                         ELSE CHOOSE n \in res.plugin : TRUE
          IN logged' = [logged EXCEPT ![c] =
                          IF ~StartsWith(areq[c].path, Health)
                          THEN <<LogEntry(plugin_, res.status, areq[c].method,
                                          areq[c].path, id)>>
                          ELSE <<>>]
    /\ AGoto(c, "done")
    /\ UNCHANGED << dispatch, areq, header, handed, ares, issued, arrivals >>

AcceptNext ==
    \E c \in Procs :
        \/ Arrive(c)
        \/ AssignId(c)
        \/ OnMsg(c)
        \/ OnMsgOk(c)
        \/ OnMsgErr(c)
        \/ Log(c)

AcceptSpec == Init /\ [][AcceptNext]_vars

(***************************************************************************)
(* Vocabulary of the properties.                                           *)
(***************************************************************************)
\* Task p takes a step.
Steps(p) == pc'[p] # pc[p]

\* Task p is inside match_plugin_handler with both guards taken.
Reading(p) == pc[p] \in {"m_find", "m_get"}

\* match_plugin_handler returns to task p in this step.
MatchReturns(p) == Reading(p) /\ pc'[p] = "done"

\* A register call has written the route and not yet the plugin map.
HalfApplied == \E q \in Procs : pc[q] = "r_plugin"

\* Task p is inside register, from its first lock to its return.
InRegister(p) == pc[p] \in {"r_routes", "r_plugins", "r_route", "r_plugin"}

RoutesBacked == \A pre \in DOMAIN routes : routes[pre] \in DOMAIN plugins

\* The completed register calls all had different names.
DistinctNames ==
    \A i, j \in 1..Len(registered) :
        i # j => PluginName(registered[i][1]) # PluginName(registered[j][1])

\* pre is pth itself or an ancestor directory of pth.
UnderPrefix(pth, pre) == IsSeqPrefix(Split(pre), Split(pth))

\* The arguments of the last completed register call for name n.
LastRegistered(n) ==
    LET is == { i \in 1..Len(registered) : PluginName(registered[i][1]) = n } IN
    registered[CHOOSE i \in is : \A j \in is : j <= i]

\* The status of the response task p holds (0: none yet).
Status(p) == IF resp[p] = None THEN 0 ELSE (CHOOSE r \in resp[p] : TRUE).status

\* Task p is serving a request of the control handler.
InHandler(p) == pc[p] \notin {"idle", "done"} /\ req[p].method \in Methods

\* The descriptor of task p's POST is registered and visible: a lookup of
\* its prefix finds a route and the listing holds an entry of its name.
Visible(p) ==
    \A d \in BodyJson(req[p].body) :
        /\ PluginPrefix(d) \in DOMAIN routes
        /\ PluginName(d) \in DOMAIN plugins
        /\ RoutesFind(routes, PluginPrefix(d)) # None
        /\ \E e \in DOMAIN PluginValues(plugins) : PluginName(e) = PluginName(d)

\* Task p is inside match_plugin_handler, register or plugin_list.
InCall(p) ==
    pc[p] \in {"m_routes", "m_plugins", "m_find", "m_get",
               "r_routes", "r_plugins", "r_route", "r_plugin",
               "l_lock", "l_read"}

\* The prefixes of the completed register calls that are the path or an
\* ancestor directory of it, and the longest of them.
RegisteredAncestors(pth) ==
    { pre \in { PluginPrefix(registered[i][1]) : i \in 1..Len(registered) } :
        UnderPrefix(pth, pre) }
Longest(pres) == CHOOSE pre \in pres : \A o \in pres : Len(Split(o)) <= Len(Split(pre))

\* The name of the last completed register call for prefix pre.
LastOwner(pre) ==
    LET is == { i \in 1..Len(registered) : PluginPrefix(registered[i][1]) = pre } IN
    PluginName(registered[CHOOSE i \in is : \A j \in is : j <= i][1])

\* Tasks p and q both got 201 for a POST of the same plugin name n.
BothCreated(p, q, n) ==
    /\ p # q
    /\ pc[p] = "done" /\ Status(p) = 201
    /\ pc[q] = "done" /\ Status(q) = 201
    /\ \A d \in BodyJson(req[p].body) \cup BodyJson(req[q].body) : PluginName(d) = n

TypeOK ==
    /\ DOMAIN routes \subseteq { PluginPrefix(d) : d \in Plugins }
    /\ \A pre \in DOMAIN routes : routes[pre] \in Names
    /\ DOMAIN plugins \subseteq Names
    /\ routesLock \in {None} \cup { Some(p) : p \in Procs }
    /\ pluginsLock \in {None} \cup { Some(p) : p \in Procs }
    /\ nextHandler \in 1..(MaxRegs + 1)
    /\ Len(registered) <= MaxRegs

(***************************************************************************)
(* C1: every routing entry prefix -> name has an entry for that name in    *)
(* the plugin map whenever no register call is between its two inserts,    *)
(* and in particular whenever a lookup reads the two structures: the name  *)
(* a lookup finds in the routing table is always a key of the plugin map.  *)
(***************************************************************************)
C1_RoutesBacked ==
    /\ ~HalfApplied => RoutesBacked
    /\ \A p \in Procs : Reading(p) => RoutesBacked
    /\ \A p \in Procs : pc[p] = "m_get" => found[p] \subseteq DOMAIN plugins

\* A lookup has found a route while the other task's registration is done.
C1_Witness ==
    \E p \in Procs :
        /\ pc[p] = "m_get"
        /\ found[p] # None
        /\ Len(registered) = 2

(***************************************************************************)
(* C2: while a lookup holds its guards (from before it reads the routing   *)
(* table until it returns) no register call is between its two inserts and *)
(* no step of another task changes the routing table or the plugin map:    *)
(* the lookup reads the state before a whole registration or after it.     *)
(***************************************************************************)
C2_RegisterAtomic ==
    [][ \A p \in Procs :
          Reading(p) =>
              /\ ~HalfApplied
              /\ pc'[p] \in {"m_find", "m_get"} => UNCHANGED << routes, plugins >> ]_vars

\* A lookup holds its guards while another task is inside register.
C2_Witness ==
    \E p, q \in Procs :
        /\ pc[p] = "m_get"
        /\ pc[q] = "r_routes"

(***************************************************************************)
(* C3: when the completed register calls all had different names, a       *)
(* lookup returns a pair exactly when some registered prefix is the path   *)
(* or an ancestor directory of it, and the pair it returns is one that was *)
(* registered and whose prefix is such an ancestor: /a resolves /a and     *)
(* /a/b and does not resolve /ab.                                          *)
(***************************************************************************)
C3_PrefixResolution ==
    [][ \A p \in Procs :
          (MatchReturns(p) /\ DistinctNames) =>
              /\ (result'[p] # None) <=>
                     (\E i \in 1..Len(registered) :
                         UnderPrefix(path[p], PluginPrefix(registered[i][1])))
              /\ \A pr \in result'[p] :
                     /\ \E i \in 1..Len(registered) : registered[i] = pr
                     /\ UnderPrefix(path[p], PluginPrefix(pr[1])) ]_vars

\* With only /a registered, one lookup resolved /a/b and another did not
\* resolve /ab.
C3_Witness ==
    \E p, q \in Procs :
        /\ DOMAIN routes = {PathA}
        /\ pc[p] = "done" /\ path[p] = PathA_B /\ result[p] # None
        /\ pc[q] = "done" /\ path[q] = PathAB /\ result[q] = None

(***************************************************************************)
(* C4: the pair a lookup returns is the descriptor and the handler of the  *)
(* last completed register call for its name, whole: never the arguments   *)
(* of an earlier call for that name, never the descriptor of one call with *)
(* the handler of another.                                                 *)
(***************************************************************************)
C4_ReplaceWhole ==
    [][ \A p \in Procs :
          MatchReturns(p) =>
              \A pr \in result'[p] :
                  /\ pr = LastRegistered(PluginName(pr[1]))
                  /\ pr[2].plugin = pr[1] ]_vars

\* A name was registered twice with different descriptors and a lookup
\* then returned the second pair.
C4_Witness ==
    \E p \in Procs :
        /\ Len(registered) = 2
        /\ PluginName(registered[1][1]) = PluginName(registered[2][1])
        /\ registered[1][1] # registered[2][1]
        /\ pc[p] = "done"
        /\ result[p] = Some(registered[2])

(***************************************************************************)
(* C5: when the N completed register calls all had different names, the    *)
(* list plugin_list returns holds exactly N descriptors: each registered   *)
(* descriptor once, with its name and prefix, and nothing else.            *)
(***************************************************************************)
C5_ListDistinct ==
    [][ \A p \in Procs :
          (pc[p] = "l_read" /\ pc'[p] = "done" /\ DistinctNames) =>
              \A list \in listed'[p] :
                  /\ BagCardinality(list) = Len(registered)
                  /\ DOMAIN list = { registered[i][1] : i \in 1..Len(registered) }
                  /\ \A d \in DOMAIN list : list[d] = 1 ]_vars

\* plugin_list returned two descriptors of different names.
C5_Witness ==
    \E p \in Procs :
        /\ pc[p] = "done"
        /\ Len(registered) = 2
        /\ DistinctNames
        /\ listed[p] # None
        /\ \A list \in listed[p] : BagCardinality(list) = 2

(***************************************************************************)
(* C6: no step of a POST whose body does not parse as a descriptor changes *)
(* the routing table or the plugin map or invokes the Loader, and the      *)
(* response of such a request is 400.                                      *)
(***************************************************************************)
C6_BadBody ==
    [][ \A p \in Procs :
          (/\ InHandler(p) /\ Steps(p)
           /\ req[p].method = "POST"
           /\ BodyJson(req[p].body) = None) =>
              /\ UNCHANGED << routes, plugins, registered, nextHandler >>
              /\ ~loaderCalled'[p]
              /\ pc'[p] \in {"h_body", "done"}
              /\ pc'[p] = "done" => resp'[p] = Some(Res(400, "parse error", NoType)) ]_vars

\* A POST with a body that is no descriptor was answered 400 while the
\* registry held a plugin.
C6_Witness ==
    \E p \in Procs :
        /\ pc[p] = "done"
        /\ req[p].method = "POST"
        /\ req[p].body = MissingPrefix
        /\ Status(p) = 400
        /\ registered # <<>>

(***************************************************************************)
(* C7: the step in which the Loader call of a POST fails ends the request  *)
(* with 422 and the body "Can't load plugin" and changes neither the       *)
(* routing table nor the plugin map; no earlier step of the request did    *)
(* either, and register is not entered.                                    *)
(***************************************************************************)
C7_LoadFails ==
    [][ \A p \in Procs :
          /\ (pc[p] = "h_load" /\ Steps(p) /\ handler'[p] = None) =>
                 /\ pc'[p] = "done"
                 /\ resp'[p] = Some(Res(422, "Can't load plugin", NoType))
                 /\ UNCHANGED << routes, plugins, registered >>
          /\ (pc[p] \in {"h_method", "h_body"} /\ Steps(p) /\ req[p].method = "POST") =>
                 /\ UNCHANGED << routes, plugins, registered >>
                 /\ ~InRegister(p)' ]_vars

\* A POST with a parsable body was answered 422.
C7_Witness ==
    \E p \in Procs :
        /\ pc[p] = "done"
        /\ BodyJson(req[p].body) # None
        /\ loaderCalled[p]
        /\ Status(p) = 422

(***************************************************************************)
(* C8: a POST whose Loader call succeeded produces no response before      *)
(* register has returned, and then 201; when the 201 is produced, and for  *)
(* as long as the task holds it, the routing entry of the descriptor's     *)
(* prefix and the plugin map entry of its name are there for lookups and   *)
(* listings.                                                               *)
(***************************************************************************)
C8_CreatedAfterRegister ==
    \A p \in Procs :
        /\ (InRegister(p) \/ pc[p] = "h_created") => resp[p] = None
        /\ pc[p] = "h_created" => Visible(p)
        /\ (pc[p] = "done" /\ Status(p) = 201) =>
               /\ req[p].method = "POST"
               /\ BodyJson(req[p].body) # None
               /\ loaderCalled[p]
               /\ Visible(p)
        /\ (pc[p] = "done" /\ loaderCalled[p] /\ Status(p) # 422) =>
               resp[p] = Some(Res(201, NoText, NoType))

\* A POST was answered 201 and the other task registered another plugin
\* afterwards.
C8_Witness ==
    \E p \in Procs :
        /\ pc[p] = "done"
        /\ Status(p) = 201
        /\ Len(registered) = 2
        /\ BodyJson(req[p].body) = Some(registered[1][1])

(***************************************************************************)
(* C9: no step of a GET changes the routing table or the plugin map or     *)
(* invokes the Loader, and its response is 200 with content type           *)
(* application/json and a body holding one JSON object, with the name and  *)
(* the prefix, for each descriptor of the plugin map and nothing else.     *)
(***************************************************************************)
C9_GetLists ==
    [][ \A p \in Procs :
          (InHandler(p) /\ Steps(p) /\ req[p].method = "GET") =>
              /\ UNCHANGED << routes, plugins, registered, nextHandler >>
              /\ ~loaderCalled'[p]
              /\ ~req'[p].bodyRead
              /\ pc'[p] = "done" =>
                     \E r \in resp'[p] :
                         /\ r.status = 200
                         /\ r.content_type = "application/json"
                         /\ DOMAIN r.body =
                                { [name |-> PluginName(plugins[n][1]),
                                   prefix |-> PluginPrefix(plugins[n][1])] :
                                     n \in DOMAIN plugins }
                         /\ \A o \in DOMAIN r.body : r.body[o] = 1 ]_vars

\* After {a, /a} and {b, /b} were registered a GET answered with exactly
\* those two.
C9_Witness ==
    \E p \in Procs :
        /\ pc[p] = "done"
        /\ req[p].method = "GET"
        /\ \E r \in resp[p] :
              DOMAIN r.body = { [name |-> "a", prefix |-> PathA],
                                [name |-> "b", prefix |-> PathB] }

(***************************************************************************)
(* C10: a request with a method other than GET and POST is answered 405   *)
(* in its first step, which reads no body, invokes no Loader and changes   *)
(* neither the routing table nor the plugin map.                           *)
(***************************************************************************)
C10_OtherMethod ==
    [][ \A p \in Procs :
          (InHandler(p) /\ Steps(p) /\ req[p].method \notin {"GET", "POST"}) =>
              /\ pc'[p] = "done"
              /\ resp'[p] = Some(Res(405, NoText, NoType))
              /\ ~req'[p].bodyRead
              /\ ~loaderCalled'[p]
              /\ UNCHANGED << routes, plugins, registered, nextHandler >> ]_vars

\* A DELETE was answered 405 while the registry held a plugin.
C10_Witness ==
    \E p \in Procs :
        /\ pc[p] = "done"
        /\ req[p].method = "DELETE"
        /\ Status(p) = 405
        /\ registered # <<>>

(***************************************************************************)
(* C11: every task that is inside match_plugin_handler, register or        *)
(* plugin_list eventually returns from it, whatever the other task does,   *)
(* and a lookup only ever returns nothing or a pair that one register call *)
(* wrote.                                                                  *)
(***************************************************************************)
C11_NoDeadlock ==
    /\ \A p \in Procs : InCall(p) ~> ~InCall(p)
    /\ [](\A p \in Procs : \A pr \in result[p] :
             \E i \in 1..Len(registered) : registered[i] = pr)

\* A register call holds both guards while the other task waits for the
\* routes guard in a lookup.
C11_Witness ==
    \E p, q \in Procs :
        /\ pc[p] = "r_plugin"
        /\ pc[q] = "m_routes"

(***************************************************************************)
(* C12: a task holds a registry guard only between the lock and the return *)
(* of match_plugin_handler, register or plugin_list: none while it awaits  *)
(* the body or the Loader, none once a lookup has handed it a handler to   *)
(* invoke, none between calls.                                             *)
(***************************************************************************)
C12_NoGuardAcrossAwait ==
    \A p \in Procs :
        /\ routesLock = Some(p) =>
               pc[p] \in {"m_plugins", "m_find", "m_get", "r_plugins", "r_route", "r_plugin"}
        /\ pluginsLock = Some(p) =>
               pc[p] \in {"m_find", "m_get", "r_route", "r_plugin", "l_read"}
        /\ pc[p] \in {"h_body", "h_load", "done"} =>
               (routesLock # Some(p) /\ pluginsLock # Some(p))

\* While one task's load is pending the other is inside register with both
\* guards.
C12_Witness ==
    \E p, q \in Procs :
        /\ pc[p] = "h_load"
        /\ pc[q] = "r_plugin"
        /\ routesLock = Some(q) /\ pluginsLock = Some(q)

(***************************************************************************)
(* C15: no step takes a name out of the plugin map or a prefix out of the  *)
(* routing table.                                                          *)
(***************************************************************************)
C15_AppendOnly ==
    [][ /\ DOMAIN plugins \subseteq DOMAIN plugins'
        /\ DOMAIN routes \subseteq DOMAIN routes' ]_vars

\* A name was registered again under another prefix, and a request failed,
\* with both routes in place.
C15_Witness ==
    \E p \in Procs :
        /\ Len(registered) = 2
        /\ PluginName(registered[1][1]) = PluginName(registered[2][1])
        /\ Cardinality(DOMAIN routes) = 2
        /\ pc[p] = "done"
        /\ Status(p) = 422

(***************************************************************************)
(* C16: a lookup of a path returns the pair held for the name that last    *)
(* registered the longest registered prefix above the path, so of two      *)
(* plugins registered with one prefix the later one; every registered      *)
(* name, the earlier one too, stays in the list plugin_list returns.       *)
(***************************************************************************)
C16_LastPrefixWins ==
    [][ \A p \in Procs :
          /\ (MatchReturns(p) /\ RegisteredAncestors(path[p]) # {}) =>
                 result'[p] =
                    Some(LastRegistered(LastOwner(Longest(RegisteredAncestors(path[p])))))
          /\ (pc[p] = "l_read" /\ pc'[p] = "done") =>
                 \A list \in listed'[p] :
                     \A i \in 1..Len(registered) :
                         LastRegistered(PluginName(registered[i][1]))[1] \in DOMAIN list ]_vars

\* Two names were registered with one prefix; a lookup under it returned
\* the second pair and a listing holds both.
C16_Witness ==
    \E p, q \in Procs :
        /\ Len(registered) = 2
        /\ PluginName(registered[1][1]) # PluginName(registered[2][1])
        /\ PluginPrefix(registered[1][1]) = PluginPrefix(registered[2][1])
        /\ pc[p] = "done" /\ result[p] = Some(registered[2])
        /\ pc[q] = "done"
        /\ \A list \in listed[q] : DOMAIN list = { registered[1][1], registered[2][1] }
        /\ listed[q] # None

(***************************************************************************)
(* C17, as claimed: outside a register call, every routing entry           *)
(* prefix -> name points to a plugin map entry whose descriptor has that   *)
(* prefix.  It fails once a name is registered again with another prefix:  *)
(* the old route stays and points to the new descriptor.                   *)
(***************************************************************************)
C17_Original ==
    ~HalfApplied =>
        \A pre \in DOMAIN routes :
            /\ routes[pre] \in DOMAIN plugins
            /\ PluginPrefix(plugins[routes[pre]][1]) = pre

(***************************************************************************)
(* C17, amended: outside a register call, every routing entry              *)
(* prefix -> name was written by a register call for that name with that   *)
(* prefix and points to the plugin map entry of the name's last register   *)
(* call; the descriptor there has the route's prefix unless the name was    *)
(* registered again with another prefix after that call.                   *)
(***************************************************************************)
C17_RouteDescriptor ==
    ~HalfApplied =>
        \A pre \in DOMAIN routes :
            LET n == routes[pre] IN
            /\ n \in DOMAIN plugins
            /\ plugins[n] = LastRegistered(n)
            /\ \E i \in 1..Len(registered) :
                  /\ registered[i][1] = MkPlugin(n, pre)
                  /\ (\A j \in (i + 1)..Len(registered) :
                         PluginName(registered[j][1]) = n
                            => PluginPrefix(registered[j][1]) = pre)
                     => PluginPrefix(plugins[n][1]) = pre

\* A name was registered again with another prefix and a lookup through
\* the old route returned the new descriptor.
C17_Witness ==
    \E p \in Procs :
        /\ registered # <<>>
        /\ PathB \in DOMAIN routes
        /\ pc[p] = "done"
        /\ path[p] = PathB
        /\ \E pr \in result[p] : PluginPrefix(pr[1]) = PathA

Holders(id) ==
    Cardinality({ n \in DOMAIN plugins : plugins[n][2].id = id })
    + Cardinality({ p \in Procs : \E pr \in result[p] : pr[2].id = id })
    + Cardinality({ p \in Procs : \E h \in handler[p] : h.id = id })

\* Instance id is gone.
Released(id) == id \in DOMAIN arcs /\ arcs[id] = 0

\* Some task holds instance id through a pair it was handed.
InFlight(id) == \E p \in Procs : \E pr \in result[p] : pr[2].id = id

\* The plugin map holds instance id.
Mapped(id) == \E n \in DOMAIN plugins : plugins[n][2].id = id

(***************************************************************************)
(* C14: a task that was handed a handler keeps a live instance whatever    *)
(* register does meanwhile; an instance is released only when the map no   *)
(* longer holds it and no task holds a pair with it, and it is released    *)
(* then; a lookup that returns after a re-registration hands out the       *)
(* handler registered last for the name.                                   *)
(***************************************************************************)
C14_HandlerLifetime ==
    [][ /\ \A p \in Procs : \A pr \in result'[p] : arcs'[pr[2].id] >= 1
        /\ \A id \in DOMAIN arcs' :
              /\ Released(id)' => ~Mapped(id)' /\ ~InFlight(id)'
              /\ Holders(id)' = 0 => Released(id)'
              /\ arcs'[id] = Holders(id)'
        /\ \A p \in Procs :
              MatchReturns(p) =>
                  \A pr \in result'[p] :
                      pr[2] = LastRegistered(PluginName(pr[1]))[2]
      ]_vars

\* A task still holds the handler a later register replaced in the map:
\* the instance is alive with the task as its only owner.
C14_Witness ==
    \E p \in Procs : \E pr \in result[p] :
        /\ PluginName(pr[1]) \in DOMAIN plugins
        /\ plugins[PluginName(pr[1])][2].id # pr[2].id
        /\ ~Mapped(pr[2].id)
        /\ arcs[pr[2].id] = 1

(***************************************************************************)
(* The accept loop                                                         *)
(***************************************************************************)
\* Connection c's request arrived without an x-request-id header.
Anonymous(c) == areq[c].id = None

\* Connection c executes the step that decides the request's identifier.
Assigns(c) == apc[c] = "id" /\ apc'[c] = "on_msg"

\* The identifiers Uuid::new_v4 has produced so far.
Issued == { Uuid(i) : i \in 1..issued }

(***************************************************************************)
(* C13: every request passed to runtime.on_msg carries x-request-id; one   *)
(* that arrived with the header carries the client's value; one that       *)
(* arrived without it carries an identifier that was generated for it:     *)
(* none generated before, and not that of another request in dispatch.     *)
(***************************************************************************)
C13_RequestId ==
    [][ \A c \in Procs :
          /\ \A h \in handed'[c] :
                /\ h.id # None
                /\ ~Anonymous(c)' => h.id = areq'[c].id
                /\ Anonymous(c)' =>
                      /\ h.id \in { Some(u) : u \in Issued' }
                      /\ \A d \in Procs \ {c} : \A g \in handed'[d] : g.id # h.id
          /\ (Assigns(c) /\ Anonymous(c)) =>
                /\ header'[c] \notin { Some(u) : u \in Issued }
                /\ header'[c] \in { Some(u) : u \in Issued' }
      ]_vars

\* Two requests are in dispatch, one under the client's identifier and one
\* under a generated one.
C13_Witness ==
    \E c, d \in Procs :
        /\ c # d
        /\ Anonymous(c) /\ ~Anonymous(d)
        /\ handed[c] = { [method |-> "GET", path |-> areq[c].path, id |-> Some(Uuid(issued))] }
        /\ \E h \in handed[d] : h.id = areq[d].id

(***************************************************************************)
(* C19, as claimed: the access log entry of a request carries the          *)
(* response's x-correlation-id when there is one, and the request's        *)
(* x-request-id (the client's or the generated one) when there is none.    *)
(* The code writes "-" in the second case.                                 *)
(***************************************************************************)
C19_LogId ==
    \A c \in Procs :
        (apc[c] = "done" /\ logged[c] # <<>>) =>
            \A res \in ares[c] :
                \A e \in { logged[c][i] : i \in DOMAIN logged[c] } :
                    IF res.correlation = None
                    THEN Some(e.id) = header[c]
                    ELSE Some(e.id) = res.correlation

\* The request's path is the health-check path or lies under it.
IsHealthCheck(pth) ==
    /\ StartsWith(pth, Health)
    /\ Len(pth) > Len(Health) => pth[Len(Health) + 1] = "/"

(***************************************************************************)
(* C20, as claimed: once on_msg has returned a response, the access log    *)
(* holds exactly one entry for the request (plugin, status, method, path), *)
(* unless the request is a health-check request, and then none; a path     *)
(* that only starts with the characters of the health-check path is        *)
(* logged.  Nothing is logged before the response.  The code skips every   *)
(* path that starts with "/_health".                                       *)
(***************************************************************************)
C20_AccessLog ==
    \A c \in Procs :
        /\ apc[c] # "done" => logged[c] = <<>>
        /\ apc[c] = "done" =>
              \A res \in ares[c] :
                  IF IsHealthCheck(areq[c].path)
                  THEN logged[c] = <<>>
                  ELSE /\ Len(logged[c]) = 1
                       /\ logged[c][1].status = res.status
                       /\ logged[c][1].method = areq[c].method
                       /\ logged[c][1].path = areq[c].path
                       /\ res.plugin \in {None, Some(logged[c][1].plugin)}

=============================================================================
